---- MODULE Spec2Model ----
(***************************************************************************)
(* spaceconf: the fixture-application pipeline of src/ops/apply.rs and the *)
(* template renderer of src/template.rs, as a state machine over a small   *)
(* filesystem.  One run of apply_fixtures is a sequence of steps, one per  *)
(* loop head and one per call that touches the filesystem; between runs    *)
(* the user may edit sources and destinations or change permissions.       *)
(***************************************************************************)
EXTENDS Naturals, Sequences, FiniteSets, TLC

\* ---------------------------------------------------------------- bounds
MaxFixtures == 2
MaxRuns == 2
MaxEdits == 1

\* ----------------------------------------------------------------- texts
\* A text is a sequence of tokens: literal words and {{ name }} references.
Lit(s) == [kind |-> "lit", v |-> s]
Ref(k) == [kind |-> "var", v |-> k]

TextA == <<Lit("A")>>
TextX == <<Lit("X")>>
TextOsB == <<Ref("os"), Lit("B")>>
TextBad == <<Ref("token")>>
TextUndef == <<Ref("nope")>>
TextS == <<Lit("S")>>

\* ----------------------------------------------------------------- paths
\* A path is the sequence of its components, "/" first when absolute.
S1 == <<"/", "repo", "s1">>
S2 == <<"/", "repo", "s2">>
D1 == <<"/", "etc", "a">>
D2 == <<"/", "home", "b">>
D3 == <<"/", "opt", "x", "c">>
BackupDir == <<"/", "state", "spaceconf">>

SrcPaths == {S1, S2}
DestPaths == {D1, D2, D3}
Platforms == {"linux", "macos"}

Parent(p) == SubSeq(p, 1, Len(p) - 1)
Ancestors(p) == {SubSeq(p, 1, n) : n \in 1..Len(p)}

\* Variant: only the file name is kept under the backup root.
get_backup_filename_flat(backup_dir, file) == backup_dir \o <<file[Len(file)]>>

\* backup_dir.join(file.strip_prefix("/").unwrap())
get_backup_filename(backup_dir, file) == backup_dir \o Tail(file)

\* Absolute paths of up to MaxDepth components over a few names: the
\* destinations a fixture may name besides the ones in use here.
MaxDepth == 3
PathNames == {"etc", "a"}
AbsPaths ==
    {<<"/">> \o s : s \in UNION {[1..n -> PathNames] : n \in 1..MaxDepth}}

SlotPaths == {get_backup_filename(BackupDir, d) : d \in DestPaths}
Files == SrcPaths \cup DestPaths \cup SlotPaths
Slot(d) == get_backup_filename(BackupDir, d)
\* The slots earlier invocations may have left behind: none, or one for every
\* destination.
SeedSets == {{}, DestPaths}

NoFile == [exists |-> FALSE, content |-> <<>>]
File(t) == [exists |-> TRUE, content |-> t]

\* -------------------------------------------------------------- fixtures
None == [some |-> FALSE, v |-> <<>>]
Some(x) == [some |-> TRUE, v |-> x]
Single(p) == [kind |-> "Single", map |-> [k \in {"*"} |-> p]]
Multiple(m) == [kind |-> "Multiple", map |-> m]
Entry(s, d, r, o) == [src |-> s, dest |-> d, raw |-> r, optional |-> o]
NoSecrets == [k \in {} |-> ""]

FilesFixture(n, inc, exc, fs_, rt, sec) ==
    [name |-> n, include_for |-> inc, exclude_for |-> exc, fixture_type |-> "Files",
     files |-> fs_, root |-> rt, secrets |-> sec]
RepositoryFixture(n) ==
    [name |-> n, include_for |-> None, exclude_for |-> None,
     fixture_type |-> "Repository", files |-> <<>>, root |-> FALSE, secrets |-> NoSecrets]

FixA == FilesFixture("a", None, None,
          <<Entry(Single(S1), Single(D1), TRUE, FALSE),
            Entry(Single(S2), Single(D2), FALSE, FALSE)>>,
          FALSE, [k \in {"token"} |-> "T"])
FixB == FilesFixture("b", Some({"linux"}), None,
          <<Entry(Single(S2), Single(D1), TRUE, FALSE)>>, FALSE, NoSecrets)
FixC == FilesFixture("c", None, Some({"linux"}),
          <<Entry(Single(S1), Single(D2), TRUE, FALSE)>>, FALSE, NoSecrets)
FixD == FilesFixture("d", None, None,
          <<Entry(Multiple([k \in {"macos"} |-> S1]), Single(D1), TRUE, TRUE),
            Entry(Single(S2), Multiple([k \in {"linux"} |-> D2]), TRUE, TRUE)>>,
          FALSE, NoSecrets)
FixE == FilesFixture("e", None, None,
          <<Entry(Single(S1), Single(D3), TRUE, FALSE),
            Entry(Single(S1), Single(D1), TRUE, FALSE)>>, TRUE, NoSecrets)
FixR == RepositoryFixture("r")

FixtureSet == {FixA, FixB, FixC, FixD, FixE, FixR}
\* The lists handed to apply_fixtures: up to MaxFixtures different fixtures.
FixtureLists ==
    {l \in UNION {[1..n -> FixtureSet] : n \in 1..MaxFixtures} :
        \A i \in DOMAIN l, j \in DOMAIN l : l[i] = l[j] => i = j}

VARIABLES
    fixtures,     \* the Vec<Fixture> handed to apply_fixtures
    os,           \* target_os of the build / current platform
    fs,           \* path -> [exists, content]: sources, destinations, slots
    dirs,         \* the directories that exist
    unwritable,   \* destinations the invoking user may not write
    unreadable,   \* destinations the invoking user may not read
    tmp,          \* number of /tmp/spaceconf-<uuid>.tmp files written
    repoCalls,    \* number of repo::apply calls made
    pc, fi, ei,   \* position inside apply_fixtures
    revert, no_backup,
    output,       \* the `output` local of the apply branch
    result,       \* how the current / last run ended
    runs, edits,  \* counters for the bounds
    dirty,        \* the user changed something since the last run ended
    chained,      \* the current run started right after the previous one
    prev,         \* summary of the previous run
    start,        \* fs when the current run started
    tried,        \* destinations a write was issued for in this run
    wrote,        \* destinations whose write reached the file in this run
    overwrote,    \* existing destinations overwritten in this run
    rewrote,      \* destinations written more than once in this run
    uptodate,     \* entries <<fi, ei>> reported "is up to date" in this run
    backed,       \* destinations whose slot was updated in this run
    touched,      \* entries <<fi, ei>> that reached restore or apply
    lastSnap,     \* destination content at the most recent backup of it
    lastOver      \* destination content before the latest backed-up overwrite

vars == <<fixtures, os, fs, dirs, unwritable, unreadable, tmp, repoCalls, pc, fi,
          ei, revert, no_backup, output, result, runs, edits, dirty, chained, prev, start,
          tried, wrote, overwrote, rewrote, uptodate, backed, touched, lastSnap,
          lastOver>>

envVars == <<fixtures, os>>
posVars == <<pc, fi, ei, output, result>>
histVars == <<tried, wrote, overwrote, rewrote, uptodate, backed, touched,
              lastSnap, lastOver>>
runVars == <<revert, no_backup, runs, chained, prev, start>>

\* -------------------------------------------------------------- template
default_context ==
    [k \in {"hostname", "arch", "os", "nproc", "wsl"} |->
        CASE k = "hostname" -> "host"
          [] k = "arch" -> "x86_64"
          [] k = "os" -> os
          [] k = "nproc" -> "4"
          [] k = "wsl" -> "false"]

\* tera.render_str: an undefined reference is an error, a literal is itself.
render(template, secrets) ==
    LET context == default_context
    IN IF \E i \in DOMAIN template :
              template[i].kind = "var" /\ template[i].v \notin DOMAIN context
       THEN [ok |-> FALSE, text |-> <<>>]
       ELSE [ok |-> TRUE,
             text |-> [i \in DOMAIN template |->
                          IF template[i].kind = "var"
                          THEN Lit(context[template[i].v])
                          ELSE template[i]]]

\* ----------------------------------------------------- fixture collaborators
skip(fixture) ==
    \/ fixture.exclude_for.some /\ os \in fixture.exclude_for.v
    \/ fixture.include_for.some /\ os \notin fixture.include_for.v

resolve(def) ==
    IF def.kind = "Single" THEN Some(def.map["*"])
    ELSE IF os \in DOMAIN def.map THEN Some(def.map[os]) ELSE None

\* ------------------------------------------------------------ filesystem
World == [fs |-> fs, dirs |-> dirs, tmp |-> tmp]
Ret(w, res, done) ==
    [fs |-> w.fs, dirs |-> w.dirs, tmp |-> w.tmp, res |-> res, done |-> done]

\* The user may write p: its directory exists and p is not write-protected.
Writable(w, p) == Parent(p) \in w.dirs /\ p \notin unwritable


\* Variant: only an existing file is written; a missing one is not created.
fs_write_existing(w, file, content) ==
    IF ~Writable(w, file) THEN Ret(w, "Err", FALSE)
    ELSE IF w.fs[file].exists
         THEN Ret([w EXCEPT !.fs[file] = File(content)], "Ok", TRUE)
         ELSE Ret(w, "Ok", FALSE)

\* std::fs::write(&dest, output)
fs_write(w, file, content) ==
    IF Writable(w, file)
    THEN Ret([w EXCEPT !.fs[file] = File(content)], "Ok", TRUE)
    ELSE Ret(w, "Err", FALSE)


\* The user may read p.
Readable(w, p) == p \notin unreadable

\* Variant: the comparison is lost and nothing is ever up to date.
check_content_never(w, content, output_path) == "false"

\* Variant: the texts are compared by their length only.
check_content_loose(w, content, output_path) ==
    IF ~w.fs[output_path].exists THEN "false"
    ELSE IF ~Readable(w, output_path) THEN "panic"
    ELSE IF Len(content) = Len(w.fs[output_path].content) THEN "true" ELSE "false"

\* "true" / "false", or "panic" when read_to_string(output).unwrap() fails.
check_content(w, content, output_path) ==
    IF ~w.fs[output_path].exists THEN "false"
    ELSE IF ~Readable(w, output_path) THEN "panic"
    ELSE IF content = w.fs[output_path].content THEN "true" ELSE "false"



\* Variant: the early return is lost and a missing destination leaves an
\* empty slot behind.
backup_file_touch(w, backup_dir, file) ==
    LET backup == get_backup_filename(backup_dir, file)
    IN [w EXCEPT !.dirs = w.dirs \cup Ancestors(Parent(backup)),
                 !.fs[backup] = IF w.fs[file].exists THEN w.fs[file] ELSE File(<<>>)]

\* Variant: an existing slot is kept instead of being overwritten.
backup_file_keep(w, backup_dir, file) ==
    IF ~w.fs[file].exists \/ w.fs[get_backup_filename(backup_dir, file)].exists
    THEN w
    ELSE LET backup == get_backup_filename(backup_dir, file)
         IN [w EXCEPT !.dirs = w.dirs \cup Ancestors(Parent(backup)),
                      !.fs[backup] = w.fs[file]]
backup_file(w, backup_dir, file) ==
    IF ~w.fs[file].exists THEN w
    ELSE LET backup == get_backup_filename(backup_dir, file)
         IN [w EXCEPT !.dirs = w.dirs \cup Ancestors(Parent(backup)),
                      !.fs[backup] = w.fs[file]]

\* Variant: the platform guard comes after the temporary file is written.
write_root_late_guard(w, file, content, mk, cp) ==
    IF os # "linux" THEN Ret([w EXCEPT !.tmp = w.tmp + 1], "Exit", FALSE)
    ELSE LET w1 == [w EXCEPT !.tmp = w.tmp + 1]
             w2 == IF Parent(file) \notin w1.dirs /\ mk
                   THEN [w1 EXCEPT !.dirs = w1.dirs \cup Ancestors(Parent(file))]
                   ELSE w1
             copied == cp /\ Parent(file) \in w2.dirs
             w3 == IF copied THEN [w2 EXCEPT !.fs[file] = File(content)] ELSE w2
         IN Ret(w3, "Ok", copied)

\* mk, cp: whether `sudo mkdir -p` and `sudo cp` do their work (their exit
\* status, which the code does not look at).
write_root(w, file, content, mk, cp) ==
    IF os # "linux" THEN Ret(w, "Exit", FALSE)
    ELSE LET w1 == [w EXCEPT !.tmp = w.tmp + 1]
             w2 == IF Parent(file) \notin w1.dirs /\ mk
                   THEN [w1 EXCEPT !.dirs = w1.dirs \cup Ancestors(Parent(file))]
                   ELSE w1
             copied == cp /\ Parent(file) \in w2.dirs
             w3 == IF copied THEN [w2 EXCEPT !.fs[file] = File(content)] ELSE w2
         IN Ret(w3, "Ok", copied)


\* Variant: an existing destination is left as it is and Ok is returned.
restore_file_lazy(w, backup_dir, file, root, mk, cp) ==
    LET backup == get_backup_filename(backup_dir, file)
    IN IF ~w.fs[backup].exists THEN Ret(w, "NotFound", FALSE)
       ELSE IF w.fs[file].exists THEN Ret(w, "Ok", FALSE)
       ELSE IF Writable(w, file)
            THEN Ret([w EXCEPT !.fs[file] = w.fs[backup]], "Ok", TRUE)
            ELSE Ret(w, "Panic", FALSE)

\* Variant: the copy goes the wrong way, from the destination to the slot.
restore_file_reversed(w, backup_dir, file, root, mk, cp) ==
    LET backup == get_backup_filename(backup_dir, file)
    IN IF ~w.fs[backup].exists THEN Ret(w, "NotFound", FALSE)
       ELSE IF root THEN write_root(w, file, w.fs[backup].content, mk, cp)
       ELSE IF Writable(w, file)
            THEN Ret([w EXCEPT !.fs[backup] = w.fs[file]], "Ok", TRUE)
            ELSE Ret(w, "Panic", FALSE)

\* Variant: the slot is moved, not copied: a restore uses the backup up.
restore_file_move(w, backup_dir, file, root, mk, cp) ==
    LET backup == get_backup_filename(backup_dir, file)
    IN IF ~w.fs[backup].exists THEN Ret(w, "NotFound", FALSE)
       ELSE IF root THEN write_root(w, file, w.fs[backup].content, mk, cp)
       ELSE IF Writable(w, file)
            THEN Ret([w EXCEPT !.fs[file] = w.fs[backup], !.fs[backup] = NoFile],
                     "Ok", TRUE)
            ELSE Ret(w, "Panic", FALSE)

\* Variant: a missing backup means the file was new: it is deleted.
restore_file_delete(w, backup_dir, file, root, mk, cp) ==
    LET backup == get_backup_filename(backup_dir, file)
    IN IF ~w.fs[backup].exists
       THEN Ret([w EXCEPT !.fs[file] = NoFile], "NotFound", FALSE)
       ELSE IF root THEN write_root(w, file, w.fs[backup].content, mk, cp)
       ELSE IF Writable(w, file)
            THEN Ret([w EXCEPT !.fs[file] = w.fs[backup]], "Ok", TRUE)
            ELSE Ret(w, "Panic", FALSE)

restore_file(w, backup_dir, file, root, mk, cp) ==
    LET backup == get_backup_filename(backup_dir, file)
    IN IF ~w.fs[backup].exists THEN Ret(w, "NotFound", FALSE)
       ELSE IF root THEN write_root(w, file, w.fs[backup].content, mk, cp)
       ELSE IF Writable(w, file)
            THEN Ret([w EXCEPT !.fs[file] = w.fs[backup]], "Ok", TRUE)
            ELSE Ret(w, "Panic", FALSE)

\* ------------------------------------------------------ the current entry
CurFixture == fixtures[fi]
CurFile == CurFixture.files[ei]
CurSrc == resolve(CurFile.src).v
CurDest == resolve(CurFile.dest).v

\* ------------------------------------------------------------------ Init
Init ==
    /\ fixtures \in FixtureLists
    /\ os \in Platforms
    /\ \E seed \in SeedSets :
         fs = [p \in Files |->
                 CASE p = S1 -> File(TextA)
                   [] p = S2 -> File(TextOsB)
                   [] p = D1 -> File(TextX)
                   [] p \in {Slot(d) : d \in seed} -> File(TextS)
                   [] OTHER -> NoFile]
    /\ dirs = Ancestors(Parent(S1)) \cup Ancestors(Parent(D1))
                \cup Ancestors(Parent(D2)) \cup {<<"/", "opt">>}
                \cup UNION {Ancestors(Parent(Slot(d))) :
                               d \in {x \in DestPaths : fs[Slot(x)].exists}}
    /\ unwritable = {}
    /\ unreadable = {}
    /\ tmp = 0
    /\ repoCalls = 0
    /\ pc = "idle" /\ fi = 1 /\ ei = 1
    /\ revert = FALSE /\ no_backup = FALSE
    /\ output = <<>>
    /\ result = "none"
    /\ runs = 0 /\ edits = 0
    /\ dirty = FALSE /\ chained = FALSE
    /\ prev = [revert |-> FALSE, no_backup |-> FALSE, result |-> "none",
               start |-> fs, wrote |-> {}, overwrote |-> {}, rewrote |-> {}]
    /\ start = fs
    /\ tried = {} /\ wrote = {} /\ overwrote = {} /\ backed = {} /\ touched = {}
    /\ rewrote = {} /\ uptodate = {}
    /\ lastSnap = [d \in DestPaths |-> fs[Slot(d)]]
    /\ lastOver = [d \in DestPaths |-> NoFile]

\* --------------------------------------------------------- apply_fixtures
StartRun(r, nb) ==
    /\ pc = "idle" /\ runs < MaxRuns
    /\ pc' = "fixture" /\ fi' = 1 /\ ei' = 1
    /\ revert' = r /\ no_backup' = nb
    /\ output' = <<>> /\ result' = "running"
    /\ runs' = runs + 1
    /\ chained' = (runs > 0 /\ ~dirty) /\ dirty' = FALSE
    /\ prev' = [revert |-> revert, no_backup |-> no_backup, result |-> result,
                start |-> start, wrote |-> wrote, overwrote |-> overwrote,
                rewrote |-> rewrote]
    /\ start' = fs
    /\ tried' = {} /\ wrote' = {} /\ overwrote' = {} /\ backed' = {} /\ touched' = {}
    /\ rewrote' = {} /\ uptodate' = {}
    /\ repoCalls' = 0
    /\ UNCHANGED <<envVars, fs, dirs, unwritable, unreadable, tmp, edits, lastSnap, lastOver>>

\* for fixture in fixtures: the list is exhausted, Ok(()) is returned
Finish ==
    /\ pc = "fixture" /\ fi > Len(fixtures)
    /\ pc' = "idle" /\ result' = "ok"
    /\ UNCHANGED <<envVars, fs, dirs, unwritable, unreadable, tmp, repoCalls, fi, ei, output,
                   edits, dirty, runVars, histVars>>


\* Variant: the `continue` is lost and a skipped Files fixture is entered.
SkipFixture_enter ==
    /\ pc = "fixture" /\ fi <= Len(fixtures)
    /\ skip(fixtures[fi])
    /\ IF fixtures[fi].fixture_type = "Files"
       THEN pc' = "file" /\ ei' = 1 /\ fi' = fi
       ELSE pc' = pc /\ ei' = ei /\ fi' = fi + 1
    /\ UNCHANGED <<envVars, fs, dirs, unwritable, unreadable, tmp, repoCalls, output,
                   result, edits, dirty, runVars, histVars>>

SkipFixture ==
    /\ pc = "fixture" /\ fi <= Len(fixtures)
    /\ skip(CurFixture)
    /\ fi' = fi + 1
    /\ UNCHANGED <<envVars, fs, dirs, unwritable, unreadable, tmp, repoCalls, pc, ei, output,
                   result, edits, dirty, runVars, histVars>>

ApplyRepository ==
    /\ pc = "fixture" /\ fi <= Len(fixtures)
    /\ ~skip(CurFixture) /\ CurFixture.fixture_type = "Repository"
    /\ repoCalls' = repoCalls + 1
    /\ fi' = fi + 1
    /\ UNCHANGED <<envVars, fs, dirs, unwritable, unreadable, tmp, pc, ei, output,
                   result, edits, dirty, runVars, histVars>>

EnterFiles ==
    /\ pc = "fixture" /\ fi <= Len(fixtures)
    /\ ~skip(CurFixture) /\ CurFixture.fixture_type = "Files"
    /\ pc' = "file" /\ ei' = 1
    /\ UNCHANGED <<envVars, fs, dirs, unwritable, unreadable, tmp, repoCalls, fi, output,
                   result, edits, dirty, runVars, histVars>>

EndFiles ==
    /\ pc = "file" /\ ei > Len(CurFixture.files)
    /\ pc' = "fixture" /\ fi' = fi + 1
    /\ UNCHANGED <<envVars, fs, dirs, unwritable, unreadable, tmp, repoCalls, ei, output,
                   result, edits, dirty, runVars, histVars>>

Unresolved(file) == ~resolve(file.src).some \/ ~resolve(file.dest).some


\* Variant: `break` instead of `continue`: the rest of the fixture is dropped.
SkipUnresolved_break ==
    /\ pc = "file" /\ ei <= Len(fixtures[fi].files)
    /\ ~resolve(fixtures[fi].files[ei].src).some
         \/ ~resolve(fixtures[fi].files[ei].dest).some
    /\ pc' = "fixture" /\ fi' = fi + 1
    /\ UNCHANGED <<envVars, fs, dirs, unwritable, unreadable, tmp, repoCalls, ei, output,
                   result, edits, dirty, runVars, histVars>>

SkipUnresolved ==
    /\ pc = "file" /\ ei <= Len(CurFixture.files)
    /\ Unresolved(CurFile)
    /\ ei' = ei + 1
    /\ UNCHANGED <<envVars, fs, dirs, unwritable, unreadable, tmp, repoCalls, pc, fi, output,
                   result, edits, dirty, runVars, histVars>>

BeginEntry ==
    /\ pc = "file" /\ ei <= Len(CurFixture.files)
    /\ ~Unresolved(CurFile)
    /\ pc' = IF revert THEN "restore" ELSE "source"
    /\ touched' = touched \cup {<<fi, ei>>}
    /\ UNCHANGED <<envVars, fs, dirs, unwritable, unreadable, tmp, repoCalls, fi, ei, output,
                   result, edits, dirty, runVars, tried, wrote, overwrote, rewrote,
                   uptodate, backed, lastSnap, lastOver>>

\* What the apply branch computes as `output`: [res, text].
ReadOutput(w, file, secrets) ==
    LET src == resolve(file.src).v
    IN IF ~w.fs[src].exists THEN [res |-> "Err", text |-> <<>>]
       ELSE IF file.raw THEN [res |-> "Ok", text |-> w.fs[src].content]
       ELSE LET r == render(w.fs[src].content, secrets)
            IN IF r.ok THEN [res |-> "Ok", text |-> r.text]
               ELSE [res |-> "Panic", text |-> <<>>]

\* Variant: the no_backup flag is not looked at; a backup is always taken.
AfterOutput_always_backup(w, out, dest, nb) ==
    IF out.res = "Err" THEN [pc |-> "idle", result |-> "io", next |-> FALSE]
    ELSE IF out.res = "Panic" THEN [pc |-> "idle", result |-> "panic", next |-> FALSE]
    ELSE IF check_content(w, out.text, dest) = "panic"
         THEN [pc |-> "idle", result |-> "panic", next |-> FALSE]
    ELSE IF check_content(w, out.text, dest) = "true"
         THEN [pc |-> "file", result |-> "running", next |-> TRUE]
    ELSE [pc |-> "backup", result |-> "running", next |-> FALSE]

\* Where the apply branch goes after computing `output`.
AfterOutput(w, out, dest, nb) ==
    IF out.res = "Err" THEN [pc |-> "idle", result |-> "io", next |-> FALSE]
    ELSE IF out.res = "Panic" THEN [pc |-> "idle", result |-> "panic", next |-> FALSE]
    ELSE IF check_content(w, out.text, dest) = "panic"
         THEN [pc |-> "idle", result |-> "panic", next |-> FALSE]
    ELSE IF check_content(w, out.text, dest) = "true"
         THEN [pc |-> "file", result |-> "running", next |-> TRUE]
    ELSE IF ~nb THEN [pc |-> "backup", result |-> "running", next |-> FALSE]
    ELSE [pc |-> "write", result |-> "running", next |-> FALSE]

ReadSource ==
    /\ pc = "source"
    /\ LET out == ReadOutput(World, CurFile, CurFixture.secrets)
           to == AfterOutput(World, out, CurDest, no_backup)
       IN /\ output' = out.text
          /\ pc' = to.pc /\ result' = to.result
          /\ ei' = IF to.next THEN ei + 1 ELSE ei
          /\ uptodate' = IF to.next THEN uptodate \cup {<<fi, ei>>} ELSE uptodate
    /\ UNCHANGED <<envVars, fs, dirs, unwritable, unreadable, tmp, repoCalls, fi,
                   edits, dirty, runVars, tried, wrote, overwrote, rewrote, backed,
                   touched, lastSnap, lastOver>>

\* if !no_backup { create_dir_all(backup_dir); backup_file(..) }
BackupStep(w, backup_dir, dest) ==
    backup_file([w EXCEPT !.dirs = w.dirs \cup Ancestors(backup_dir)],
                backup_dir, dest)

Backup ==
    /\ pc = "backup"
    /\ LET w == BackupStep(World, BackupDir, CurDest)
       IN /\ fs' = w.fs /\ dirs' = w.dirs
          /\ backed' = IF fs[CurDest].exists THEN backed \cup {CurDest} ELSE backed
          /\ lastSnap' = IF fs[CurDest].exists
                         THEN [lastSnap EXCEPT ![CurDest] = fs[CurDest]]
                         ELSE lastSnap
    /\ pc' = "write"
    /\ UNCHANGED <<envVars, unwritable, unreadable, tmp, repoCalls, fi, ei, output, result,
                   edits, dirty, runVars, tried, wrote, overwrote, rewrote, uptodate,
                   touched, lastOver>>

\* if setup.root { write_root(..)? } else { std::fs::write(..)? }
WriteStep(w, root, dest, content, mk, cp) ==
    IF root THEN write_root(w, dest, content, mk, cp)
    ELSE fs_write(w, dest, content)


\* Variant: a missing backup is skipped and the loop goes on.
AfterCall_skip_missing(res) ==
    CASE res = "Ok" -> [pc |-> "file", result |-> "running", next |-> TRUE]
      [] res = "Err" -> [pc |-> "idle", result |-> "io", next |-> FALSE]
      [] res = "NotFound" -> [pc |-> "file", result |-> "running", next |-> TRUE]
      [] res = "Panic" -> [pc |-> "idle", result |-> "panic", next |-> FALSE]
      [] res = "Exit" -> [pc |-> "idle", result |-> "exit", next |-> FALSE]

AfterCall(res) ==
    CASE res = "Ok" -> [pc |-> "file", result |-> "running", next |-> TRUE]
      [] res = "Err" -> [pc |-> "idle", result |-> "io", next |-> FALSE]
      [] res = "NotFound" -> [pc |-> "idle", result |-> "notfound", next |-> FALSE]
      [] res = "Panic" -> [pc |-> "idle", result |-> "panic", next |-> FALSE]
      [] res = "Exit" -> [pc |-> "idle", result |-> "exit", next |-> FALSE]

Write ==
    /\ pc = "write"
    /\ \E mk \in BOOLEAN, cp \in BOOLEAN :
         LET r == WriteStep(World, CurFixture.root, CurDest, output, mk, cp)
             to == AfterCall(r.res)
         IN /\ fs' = r.fs /\ dirs' = r.dirs /\ tmp' = r.tmp
            /\ pc' = to.pc /\ result' = to.result
            /\ ei' = IF to.next THEN ei + 1 ELSE ei
            /\ tried' = tried \cup {CurDest}
            /\ wrote' = IF r.done THEN wrote \cup {CurDest} ELSE wrote
            /\ rewrote' = IF r.done /\ CurDest \in wrote
                          THEN rewrote \cup {CurDest} ELSE rewrote
            /\ overwrote' = IF r.done /\ fs[CurDest].exists
                            THEN overwrote \cup {CurDest} ELSE overwrote
            /\ lastOver' = IF r.done /\ fs[CurDest].exists /\ ~no_backup
                           THEN [lastOver EXCEPT ![CurDest] = fs[CurDest]]
                           ELSE lastOver
    /\ UNCHANGED <<envVars, unwritable, unreadable, repoCalls, fi, output, edits, dirty,
                   runVars, uptodate, backed, touched, lastSnap>>

Restore ==
    /\ pc = "restore"
    /\ \E mk \in BOOLEAN, cp \in BOOLEAN :
         LET r == restore_file(World, BackupDir, CurDest, CurFixture.root, mk, cp)
             to == AfterCall(r.res)
         IN /\ fs' = r.fs /\ dirs' = r.dirs /\ tmp' = r.tmp
            /\ pc' = to.pc /\ result' = to.result
            /\ ei' = IF to.next THEN ei + 1 ELSE ei
            /\ wrote' = IF r.done THEN wrote \cup {CurDest} ELSE wrote
    /\ UNCHANGED <<envVars, unwritable, unreadable, repoCalls, fi, output, edits, dirty,
                   runVars, tried, overwrote, rewrote, uptodate, backed, touched,
                   lastSnap, lastOver>>

\* ------------------------------------------------------- the user, between runs
\* The user acts only while another run can still follow.
UserTurn == pc = "idle" /\ edits < MaxEdits /\ runs < MaxRuns
SourceEdits == {NoFile, File(TextBad), File(TextUndef)}
DestEdits == {NoFile, File(TextX)}

EditSource(s, f) ==
    /\ UserTurn
    /\ f # fs[s]
    /\ fs' = [fs EXCEPT ![s] = f]
    /\ edits' = edits + 1 /\ dirty' = TRUE
    /\ UNCHANGED <<envVars, dirs, unwritable, unreadable, tmp, repoCalls, posVars, runVars, histVars>>

EditDest(d, f) ==
    /\ UserTurn
    /\ f # fs[d] /\ Parent(d) \in dirs
    /\ fs' = [fs EXCEPT ![d] = f]
    \* a removed file takes its permissions with it
    /\ unwritable' = IF f.exists THEN unwritable ELSE unwritable \ {d}
    /\ unreadable' = IF f.exists THEN unreadable ELSE unreadable \ {d}
    /\ edits' = edits + 1 /\ dirty' = TRUE
    /\ UNCHANGED <<envVars, dirs, tmp, repoCalls, posVars, runVars, histVars>>

Chmod(d) ==
    /\ UserTurn /\ fs[d].exists
    /\ unwritable' = IF d \in unwritable THEN unwritable \ {d} ELSE unwritable \cup {d}
    /\ edits' = edits + 1 /\ dirty' = TRUE
    /\ UNCHANGED <<envVars, fs, dirs, unreadable, tmp, repoCalls, posVars, runVars,
                   histVars>>

ChmodRead(d) ==
    /\ UserTurn /\ fs[d].exists
    /\ unreadable' = IF d \in unreadable THEN unreadable \ {d} ELSE unreadable \cup {d}
    /\ edits' = edits + 1 /\ dirty' = TRUE
    /\ UNCHANGED <<envVars, fs, dirs, unwritable, tmp, repoCalls, posVars, runVars,
                   histVars>>

Next ==
    \/ \E r \in BOOLEAN, nb \in BOOLEAN : StartRun(r, nb)
    \/ Finish
    \/ SkipFixture
    \/ ApplyRepository
    \/ EnterFiles
    \/ EndFiles
    \/ SkipUnresolved
    \/ BeginEntry
    \/ ReadSource
    \/ Backup
    \/ Write
    \/ Restore
    \/ \E s \in SrcPaths, f \in SourceEdits : EditSource(s, f)
    \/ \E d \in DestPaths, f \in DestEdits : EditDest(d, f)
    \/ \E d \in DestPaths : Chmod(d)
    \/ \E d \in DestPaths : ChmodRead(d)

Spec == Init /\ [][Next]_vars

\* ================================================================ claims
\* Entries of the list that reach the restore or apply branch.
Positions == {<<f, e>> : f \in 1..MaxFixtures + 1, e \in 1..2}
Processed(f, e) ==
    /\ f \in DOMAIN fixtures
    /\ ~skip(fixtures[f]) /\ fixtures[f].fixture_type = "Files"
    /\ e \in DOMAIN fixtures[f].files
    /\ ~Unresolved(fixtures[f].files[e])
ProcessedSet == {p \in Positions : Processed(p[1], p[2])}
DestOf(p) == resolve(fixtures[p[1]].files[p[2]].dest).v
Desired(p) == ReadOutput(World, fixtures[p[1]].files[p[2]], fixtures[p[1]].secrets)
Before(p, q) == p[1] < q[1] \/ (p[1] = q[1] /\ p[2] < q[2])

\* No two processed entries want different content in one destination.
NoConflict ==
    \A p \in ProcessedSet, q \in ProcessedSet :
        DestOf(p) = DestOf(q) => Desired(p) = Desired(q)
\* No processed entry belongs to a privileged (root) fixture.
NoRootProcessed == \A p \in ProcessedSet : ~fixtures[p[1]].root

\* The run that just ended was an apply run started right after a successful
\* apply run with the same flags (same fixtures, sources and secrets).
SecondApplyDone ==
    /\ pc = "idle" /\ ~dirty /\ result = "ok" /\ ~revert /\ chained
    /\ ~prev.revert /\ prev.result = "ok" /\ prev.no_backup = no_backup

\* C1 (as stated): a second apply run with unchanged inputs issues no
\* destination write and updates no backup slot, for any list of fixtures
\* (here already for the lists without privileged fixtures).
C1_Idempotent_AnyList ==
    (SecondApplyDone /\ NoRootProcessed) => tried = {} /\ backed = {}

\* C1 (amended): for lists without privileged fixtures in which no two
\* processed entries want different content in one destination, a second
\* apply run with unchanged inputs issues no destination write, updates no
\* backup slot and reports every processed entry up to date.
C1_Idempotent ==
    (/\ ~revert /\ chained /\ ~dirty
     /\ ~prev.revert /\ prev.result = "ok" /\ prev.no_backup = no_backup
     /\ NoConflict /\ NoRootProcessed)
    => /\ tried = {} /\ backed = {}
       /\ fs = start
       /\ pc \notin {"backup", "write"}
       /\ result \in {"running", "ok"}
       /\ pc = "idle" => uptodate = ProcessedSet
C1_Witness ==
    /\ SecondApplyDone /\ NoConflict /\ NoRootProcessed
    /\ prev.overwrote # {} /\ Cardinality(uptodate) = 2

\* The run that just ended was a revert run started right after a successful
\* apply run with backups enabled.
RevertAfterApplyDone ==
    /\ pc = "idle" /\ ~dirty /\ revert /\ chained
    /\ ~prev.revert /\ prev.result = "ok" /\ ~prev.no_backup

\* C2 (as stated): after apply (with backups) then revert, every destination
\* that existed before the apply run and was overwritten by it holds the
\* content it had before the apply run (here already for the lists without
\* privileged fixtures).
C2_RevertRestores_Any ==
    (RevertAfterApplyDone /\ NoRootProcessed) =>
        \A d \in prev.overwrote :
            prev.start[d].exists => fs[d] = prev.start[d]

\* C2 (amended): the same, for lists without privileged fixtures, when the
\* revert run completes successfully and for the destinations the apply run
\* wrote exactly once.
C2_RevertRestores ==
    (RevertAfterApplyDone /\ result = "ok" /\ NoRootProcessed) =>
        \A d \in prev.overwrote \ prev.rewrote :
            prev.start[d].exists => fs[d] = prev.start[d]
C2_Witness ==
    /\ RevertAfterApplyDone /\ result = "ok" /\ NoRootProcessed
    /\ \E d \in prev.overwrote \ prev.rewrote :
          /\ prev.start[d].exists /\ d \in wrote
          /\ start[d] # prev.start[d]

\* C3 (as stated): between runs, an existing slot holds the content its
\* destination had immediately before the most recent overwrite that was
\* preceded by a backup (here for the destinations that have had such an
\* overwrite, in lists without privileged fixtures).
C3_SlotIsLastOverwritten ==
    (pc = "idle" /\ NoRootProcessed) =>
        \A d \in DestPaths :
            (fs[Slot(d)].exists /\ lastOver[d].exists) => fs[Slot(d)] = lastOver[d]

\* C3 (amended): an existing slot holds the content its destination had at
\* the most recent backup of it, taken before the most recent write attempt
\* with backups enabled on an existing destination, whether or not that
\* write then reached the file; and a restore that returns Ok sets the
\* destination to that snapshot (a privileged one whose elevated copy did
\* nothing leaves it as it was).
C3_SlotIsLastSnapshot ==
    /\ [](\A d \in DestPaths : fs[Slot(d)].exists => fs[Slot(d)] = lastSnap[d])
    /\ [][(pc = "restore" /\ pc' = "file") =>
             \/ fs'[CurDest] = lastSnap[CurDest]
             \/ CurFixture.root /\ fs'[CurDest] = fs[CurDest]]_vars
C3_Witness ==
    /\ pc = "file" /\ revert /\ D1 \in wrote
    /\ fs[D1] = File(TextA) /\ lastSnap[D1] = File(TextA)
    /\ prev.start[D1] = File(TextX)

\* C4: a revert run that reaches an entry whose destination has no backup
\* slot returns NotFound there, changes nothing in doing so, and ends: the
\* entry is the first such entry in declaration order and no later entry
\* is ever reached.
C4_RevertFailFast ==
    /\ [][(pc = "restore" /\ ~fs[Slot(CurDest)].exists) =>
            /\ pc' = "idle" /\ result' = "notfound"
            /\ fs' = fs /\ dirs' = dirs /\ tmp' = tmp
            /\ fi' = fi /\ ei' = ei /\ touched' = touched /\ wrote' = wrote]_vars
    /\ [](result = "notfound" =>
            /\ pc = "idle" /\ revert
            /\ ~fs[Slot(CurDest)].exists
            /\ touched = {p \in ProcessedSet : p = <<fi, ei>> \/ Before(p, <<fi, ei>>)}
            /\ \A p \in touched \ {<<fi, ei>>} : fs[Slot(DestOf(p))].exists)
C4_Witness ==
    /\ result = "notfound" /\ wrote # {}
    /\ Cardinality(touched) = 2
    /\ \E p \in ProcessedSet : Before(<<fi, ei>>, p)

\* C5: the step taken at a fixture that is skipped for the current platform
\* changes no file, no directory and no backup slot, in apply and in revert
\* mode, and moves on to the next fixture; no entry of such a fixture is
\* ever reached.
C5_SkippedFixtureNoEffect ==
    /\ [][(pc = "fixture" /\ fi <= Len(fixtures) /\ skip(CurFixture)) =>
            /\ fs' = fs /\ dirs' = dirs /\ tmp' = tmp /\ repoCalls' = repoCalls
            /\ pc' = "fixture" /\ fi' = fi + 1 /\ result' = result
            /\ UNCHANGED histVars]_vars
    /\ [](\A p \in touched : ~skip(fixtures[p[1]]))
C5_Witness ==
    /\ pc = "idle" /\ result = "ok" /\ ~dirty /\ Len(fixtures) = 2
    /\ skip(fixtures[1]) /\ fixtures[1].fixture_type = "Files"
    /\ wrote # {} /\ fs[D2] = start[D2]

\* C6: the step taken at an entry whose source or destination resolves to
\* absent changes nothing but the loop index: no file, directory or slot,
\* no error, and the next entry of the same fixture is processed from the
\* state the skipped entry was met in.
C6_UnresolvedEntrySkipped ==
    [][(pc = "file" /\ ei <= Len(CurFixture.files) /\ Unresolved(CurFile)) =>
          /\ ei' = ei + 1
          /\ UNCHANGED <<envVars, fs, dirs, unwritable, unreadable, tmp, repoCalls, pc, fi,
                         output, result, edits, dirty, runVars, histVars>>]_vars
C6_Witness ==
    /\ pc = "idle" /\ result = "ok" /\ ~revert
    /\ Len(fixtures) = 1 /\ Len(fixtures[1].files) = 2
    /\ Unresolved(fixtures[1].files[1])
    /\ touched = {<<1, 2>>} /\ D2 \in wrote

\* The content an entry wants in its destination: the source verbatim when
\* raw, the rendered source otherwise.
Wanted(p) ==
    LET file == fixtures[p[1]].files[p[2]]
        text == fs[resolve(file.src).v].content
    IN IF file.raw THEN text ELSE render(text, fixtures[p[1]].secrets).text
LaterTarget(p) ==
    \E q \in ProcessedSet : Before(p, q) /\ DestOf(q) = DestOf(p)

\* C7: after a successful apply run, the destination of every processed
\* non-privileged entry that no later entry targets exists and holds the
\* entry's desired content.
C7_ApplyPostcondition ==
    (pc = "idle" /\ ~dirty /\ result = "ok" /\ ~revert) =>
        \A p \in ProcessedSet :
            (~fixtures[p[1]].root /\ ~LaterTarget(p)) =>
                fs[DestOf(p)] = File(Wanted(p))
C7_Witness ==
    /\ pc = "idle" /\ ~dirty /\ result = "ok" /\ ~revert
    /\ <<1, 2>> \in ProcessedSet /\ ~fixtures[1].root /\ ~fixtures[1].files[2].raw
    /\ ~start[D2].exists /\ D2 \in wrote
    /\ fs[D2] = File(<<Lit("linux"), Lit("B")>>)

\* restore_file returned Ok and the destination now equals its slot.
RestoredHere ==
    /\ pc' = "file" /\ result' = "running" /\ ei' = ei + 1
    /\ fs'[CurDest] = fs[Slot(CurDest)]
    /\ \A p \in Files \ {CurDest} : fs'[p] = fs[p]

C9_BackupPostcondition ==
    [][pc = "backup" =>
          IF ~fs[CurDest].exists THEN fs' = fs
          ELSE /\ fs'[Slot(CurDest)] = fs[CurDest]
               /\ \A p \in Files \ {Slot(CurDest)} : fs'[p] = fs[p]]_vars
C9_Witness ==
    /\ pc = "write" /\ ~no_backup /\ fs[CurDest].exists
    /\ fs[Slot(CurDest)] = fs[CurDest]
    /\ start[Slot(CurDest)].exists /\ start[Slot(CurDest)] # fs[CurDest]

\* The run ends at this step with an error for the caller and nothing changed.
AbortsHere ==
    /\ pc' = "idle" /\ result' = "io"
    /\ fs' = fs /\ dirs' = dirs /\ touched' = touched

\* C10: in apply mode a source that cannot be read, or a write that does not
\* reach its destination, ends the run at that entry with an error for the
\* caller and leaves every file as it is (on linux, where the privileged
\* writer runs).
C10_ApplyFailFast ==
    [][/\ (pc = "source" /\ ~fs[CurSrc].exists) => AbortsHere
       /\ (pc = "write" /\ os = "linux" /\ fs'[CurDest] # File(output)) =>
             AbortsHere]_vars

\* C10 for the entries of non-privileged fixtures only.
C10_ApplyFailFast_Unprivileged ==
    /\ [][/\ (pc = "source" /\ ~fs[CurSrc].exists) => AbortsHere
          /\ (pc = "write" /\ ~CurFixture.root /\ fs'[CurDest] # File(output)) =>
                AbortsHere]_vars
    /\ [](result = "io" =>
            /\ pc = "idle" /\ ~revert
            /\ touched = {p \in ProcessedSet : p = <<fi, ei>> \/ Before(p, <<fi, ei>>)})
C10_Unprivileged_Witness ==
    /\ result = "io" /\ CurDest \in tried /\ wrote # {}
    /\ \E p \in ProcessedSet : Before(<<fi, ei>>, p)

\* The privileged write of this step ran on linux and one of its elevated
\* helpers failed: the directory is still missing afterwards, or the content
\* did not reach the destination.
HelperFailed ==
    /\ pc = "write" /\ CurFixture.root /\ os = "linux"
    /\ Parent(CurDest) \notin dirs' \/ fs'[CurDest] # File(output)

\* C11: when an elevated helper of a privileged write fails, write_root does
\* not report success: the run ends at that entry with a failure, the entry
\* is not counted as written and the loop does not move on to a later entry.
C11_HelperFailureAborts ==
    [][HelperFailed =>
          /\ pc' = "idle" /\ result' \notin {"running", "ok"}
          /\ ei' = ei /\ wrote' = wrote]_vars

\* What write_root does instead: on linux it returns Ok whatever the helpers
\* did, and the loop moves on to the next entry.
C11_HelperFailureIgnored ==
    [][(pc = "write" /\ CurFixture.root /\ os = "linux") =>
          /\ pc' = "file" /\ result' = "running" /\ ei' = ei + 1
          /\ tmp' = tmp + 1]_vars
C11_Ignored_Witness ==
    /\ pc = "idle" /\ result = "ok" /\ ~revert /\ ~dirty
    /\ Len(fixtures) = 1 /\ fixtures[1].root
    /\ D3 \in tried /\ ~fs[D3].exists /\ D1 \in wrote

\* A reference of the template is bound neither by the host facts nor by the
\* fixture's secrets: the template cannot be rendered under any reading.
Undefined(template, secrets) ==
    \E i \in DOMAIN template :
        /\ template[i].kind = "var"
        /\ template[i].v \notin DOMAIN default_context \cup DOMAIN secrets

\* This step renders a non-raw source whose template has an undefined
\* reference.
TemplatingFails ==
    /\ pc = "source" /\ fs[CurSrc].exists /\ ~CurFile.raw
    /\ Undefined(fs[CurSrc].content, CurFixture.secrets)

\* C12: a templating failure ends the run at that entry and reaches the
\* caller of apply_fixtures as an error (an Err value, as a failed read or
\* write does); no file, directory or slot changes and no later entry is
\* processed.
C12_TemplatingErrorReturned ==
    [][TemplatingFails =>
          /\ pc' = "idle" /\ result' \in {"io", "notfound"}
          /\ fs' = fs /\ dirs' = dirs /\ ei' = ei /\ touched' = touched]_vars

\* What the code does instead: render(..).unwrap() panics; the run ends
\* there without a value for the caller, nothing is modified and no later
\* entry is processed.
C12_TemplatingPanics ==
    /\ [][TemplatingFails =>
             /\ pc' = "idle" /\ result' = "panic"
             /\ fs' = fs /\ dirs' = dirs /\ tmp' = tmp
             /\ ei' = ei /\ touched' = touched]_vars
    /\ [](result = "panic" =>
             touched = {p \in ProcessedSet : p = <<fi, ei>> \/ Before(p, <<fi, ei>>)})
C12_Panics_Witness ==
    /\ result = "panic" /\ ~revert /\ ~CurFile.raw
    /\ Undefined(fs[CurSrc].content, CurFixture.secrets)
    /\ wrote # {} /\ ~fs[CurDest].exists
    /\ \E p \in ProcessedSet : Before(<<fi, ei>>, p)

\* The directories of the backup store: the backup root and all below it.
BackupTree(ds) ==
    {p \in ds : Len(p) >= Len(BackupDir) /\ SubSeq(p, 1, Len(BackupDir)) = BackupDir}

\* C13: no step of an apply run with no_backup set creates the backup root
\* or any directory below it, or creates or changes a backup slot; such a
\* run never reaches the backup step, and an entry whose destination is
\* missing or differs still goes to the write step, where a non-privileged
\* write to a writable destination puts the desired content in place.
C13_NoBackupFrame ==
    /\ [][(pc # "idle" /\ ~revert /\ no_backup) =>
             /\ \A d \in DestPaths : fs'[Slot(d)] = fs[Slot(d)]
             /\ BackupTree(dirs') = BackupTree(dirs)
             /\ pc' # "backup"]_vars
    /\ [][(pc = "source" /\ no_backup /\ pc' # "idle") =>
             IF fs[CurDest] = File(output') THEN pc' = "file" /\ fs' = fs
             ELSE pc' = "write"]_vars
    /\ [][(pc = "write" /\ no_backup /\ ~CurFixture.root
             /\ Writable(World, CurDest)) => fs'[CurDest] = File(output)]_vars
C13_Witness ==
    /\ pc = "idle" /\ result = "ok" /\ ~revert /\ no_backup /\ ~dirty
    /\ runs = 1 /\ BackupDir \notin dirs
    /\ D1 \in overwrote /\ D2 \in wrote /\ fs[D1] # start[D1]
    /\ \A d \in DestPaths : ~fs[Slot(d)].exists

\* The files a step changed.
Changed == {p \in Files : fs'[p] # fs[p]}

\* C14: the slot of an absolute destination path is the path without its
\* leading separator, joined under the backup root, and the slots of two
\* different absolute paths differ (a fact about the function alone, for the
\* destinations in use and all absolute paths of up to MaxDepth components;
\* it is evaluated in the states before the first run).  At every backup
\* and restore step the slot of the destination at hand is the slot of no
\* other path, and the two steps address this one slot: the backup writes no
\* other file, a non-privileged restore reads the destination's new content
\* from it.
C14_SlotMapping ==
    /\ []((runs = 0 /\ edits = 0) =>
            \A p \in AbsPaths \cup DestPaths :
              /\ get_backup_filename(BackupDir, p) = BackupDir \o SubSeq(p, 2, Len(p))
              /\ \A q \in AbsPaths \cup DestPaths :
                   p # q => get_backup_filename(BackupDir, p)
                              # get_backup_filename(BackupDir, q))
    /\ [](pc \in {"backup", "restore"} =>
            \A q \in (AbsPaths \cup DestPaths) \ {CurDest} :
                get_backup_filename(BackupDir, q)
                  # get_backup_filename(BackupDir, CurDest))
    /\ [][pc = "backup" =>
            Changed \subseteq {BackupDir \o SubSeq(CurDest, 2, Len(CurDest))}]_vars
    /\ [][(pc = "restore" /\ pc' = "file" /\ ~CurFixture.root) =>
            fs'[CurDest] = fs[BackupDir \o SubSeq(CurDest, 2, Len(CurDest))]]_vars
C14_Witness ==
    /\ pc = "idle" /\ result = "ok" /\ revert /\ chained /\ ~prev.revert
    /\ start[Slot(D1)].exists /\ start[Slot(D2)].exists
    /\ start[Slot(D1)] # start[Slot(D2)]
    /\ fs[D1] = start[Slot(D1)] /\ fs[D2] = start[Slot(D2)]
    /\ {D1, D2} \subseteq prev.overwrote

\* The context the claim describes: the host facts and the fixture's secret
\* bindings in one namespace.
MergedContext(secrets) ==
    [k \in DOMAIN default_context \cup DOMAIN secrets |->
        IF k \in DOMAIN secrets THEN secrets[k] ELSE default_context[k]]
\* The text a template renders to against that context.
MergedText(template, secrets) ==
    [i \in DOMAIN template |->
        IF template[i].kind = "var"
        THEN Lit(MergedContext(secrets)[template[i].v])
        ELSE template[i]]

\* C15: a non-raw source whose references are all bound by the host facts
\* or by the fixture's secrets renders to the text obtained by substituting
\* those bindings, a reference to a secret key by the secret's value; the
\* rendering is a function of template, secrets and host.
C15_SecretsInContext ==
    [][(/\ pc = "source" /\ fs[CurSrc].exists /\ ~CurFile.raw
        /\ ~Undefined(fs[CurSrc].content, CurFixture.secrets)) =>
          output' = MergedText(fs[CurSrc].content, CurFixture.secrets)]_vars

\* What the code does: render builds its context from the host facts alone;
\* a template that refers to host facts renders with them, and one that
\* refers to a secret key of its fixture fails as an undefined reference.
C15_HostFactsOnly ==
    [][(pc = "source" /\ fs[CurSrc].exists /\ ~CurFile.raw) =>
          IF \E i \in DOMAIN fs[CurSrc].content :
                 /\ fs[CurSrc].content[i].kind = "var"
                 /\ fs[CurSrc].content[i].v \notin DOMAIN default_context
          THEN pc' = "idle" /\ result' = "panic" /\ fs' = fs
          ELSE output' = MergedText(fs[CurSrc].content, NoSecrets)]_vars
C15_HostFacts_Witness ==
    /\ result = "panic" /\ ~revert /\ ~CurFile.raw
    /\ fs[CurSrc].content = TextBad /\ "token" \in DOMAIN CurFixture.secrets

\* This step is a privileged write: of an apply entry, or of a restore whose
\* slot exists.
PrivilegedWrite ==
    /\ pc \in {"write", "restore"}
    /\ CurFixture.root
    /\ pc = "restore" => fs[Slot(CurDest)].exists

\* C16: on a platform other than linux a privileged write ends the process
\* with a non-zero exit status and has done nothing before: no temporary
\* file is written, no directory is created (no elevated mkdir), no file
\* changes (no elevated copy, the destination is as it was), and the
\* destination is not counted as written.  Only on linux is a temporary
\* file ever written.
C16_PlatformGuard ==
    /\ [][(PrivilegedWrite /\ os # "linux") =>
             /\ pc' = "idle" /\ result' = "exit"
             /\ tmp' = tmp /\ dirs' = dirs /\ fs' = fs
             /\ wrote' = wrote /\ ei' = ei]_vars
    /\ [](os # "linux" => tmp = 0)
    /\ [](result = "exit" => os # "linux" /\ pc = "idle")
C16_Witness ==
    /\ result = "exit" /\ os = "macos" /\ ~revert
    /\ CurFixture.root /\ CurDest = D3 /\ D3 \in tried
    /\ ~fs[D3].exists /\ Parent(D3) \notin dirs /\ tmp = 0
C16_Restore_Witness ==
    /\ result = "exit" /\ os = "macos" /\ revert
    /\ CurFixture.root /\ fs[Slot(CurDest)].exists /\ fs[CurDest] = start[CurDest]

\* This step has the desired content of the entry in hand (the source was
\* read and rendered) and compares it with the destination.
Compares ==
    /\ pc = "source"
    /\ ReadOutput(World, CurFile, CurFixture.secrets).res = "Ok"
DesiredHere == ReadOutput(World, CurFile, CurFixture.secrets).text

\* C17: in apply mode, when the destination exists and cannot be read the
\* run ends there (a panic) with nothing changed; when it exists and holds
\* exactly the desired content the entry is reported up to date and no
\* file, slot or directory changes; in every other case (destination
\* missing, or different in any way) the entry goes on to the backup step,
\* or straight to the write step when backups are off, and each backup is
\* followed by the write.  The backup and write steps are reached in no
\* other way.
C17_UpToDateExact ==
    /\ [][Compares =>
            IF fs[CurDest].exists /\ CurDest \in unreadable
            THEN pc' = "idle" /\ result' = "panic" /\ fs' = fs /\ dirs' = dirs
            ELSE IF fs[CurDest] = File(DesiredHere)
            THEN /\ pc' = "file" /\ ei' = ei + 1 /\ result' = "running"
                 /\ fs' = fs /\ dirs' = dirs /\ tmp' = tmp
                 /\ uptodate' = uptodate \cup {<<fi, ei>>}
                 /\ UNCHANGED <<tried, wrote, backed>>
            ELSE /\ pc' = (IF no_backup THEN "write" ELSE "backup")
                 /\ output' = DesiredHere /\ ei' = ei]_vars
    /\ [][pc = "backup" => pc' = "write" /\ ei' = ei /\ output' = output]_vars
    /\ [][pc = "write" => CurDest \in tried']_vars
    /\ [](pc \in {"backup", "write"} => fs[CurDest] # File(output))
    /\ [](\A p \in uptodate : DestOf(p) \notin tried \/ LaterTarget(p)
                                 \/ \E q \in ProcessedSet :
                                       Before(q, p) /\ DestOf(q) = DestOf(p))
C17_Witness ==
    /\ pc = "idle" /\ result = "ok" /\ ~revert /\ ~no_backup /\ ~dirty /\ runs = 2
    /\ <<1, 1>> \in uptodate /\ <<1, 2>> \notin uptodate
    /\ D1 \notin tried /\ D2 \in tried /\ D2 \in backed
    /\ fs[D1] = start[D1] /\ fs[Slot(D1)] = start[Slot(D1)]
C17_Unreadable_Witness ==
    /\ pc = "idle" /\ result = "panic" /\ ~revert
    /\ fs[CurDest].exists /\ CurDest \in unreadable /\ fs = start
    /\ fs[CurSrc].exists

\* The entries reached so far are exactly the processed entries up to the
\* current position, in declaration order; one entry is in progress at a
\* time and a successful run has reached them all.
InDeclarationOrder ==
    /\ pc \in {"file", "source", "backup", "write", "restore"} =>
          touched = {p \in ProcessedSet :
                        Before(p, <<fi, ei>>) \/ (p = <<fi, ei>> /\ pc # "file")}
    /\ (pc = "idle" /\ result = "ok") => touched = ProcessedSet

\* q is the last entry that targets its destination and p the last one
\* before q that does; they want different content.
LastTwo(p, q) ==
    /\ Before(p, q) /\ DestOf(p) = DestOf(q)
    /\ ~LaterTarget(q)
    /\ \A r \in ProcessedSet :
          (Before(p, r) /\ Before(r, q)) => DestOf(r) # DestOf(p)
    /\ Wanted(p) # Wanted(q)

\* After a successful apply run the destination of p and q holds q's
\* content and, with backups enabled, its slot holds p's.
LaterWins(p, q) ==
    /\ fs[DestOf(q)] = File(Wanted(q))
    /\ ~no_backup => fs[Slot(DestOf(q))] = File(Wanted(p))

\* C18: entries are processed in declaration order, one at a time; after a
\* successful apply run, of two entries that resolve to one destination with
\* different content the later one's content is in the destination and,
\* with backups enabled, the earlier one's content is in its slot.
C18_DeclarationOrder ==
    /\ InDeclarationOrder
    /\ (pc = "idle" /\ result = "ok" /\ ~revert /\ ~dirty) =>
          \A p \in ProcessedSet, q \in ProcessedSet :
              LastTwo(p, q) => LaterWins(p, q)

\* C18 for pairs of entries of non-privileged fixtures.
C18_DeclarationOrder_Unprivileged ==
    /\ InDeclarationOrder
    /\ (pc = "idle" /\ result = "ok" /\ ~revert /\ ~dirty) =>
          \A p \in ProcessedSet, q \in ProcessedSet :
              (LastTwo(p, q) /\ ~fixtures[p[1]].root /\ ~fixtures[q[1]].root)
                  => LaterWins(p, q)
C18_Unprivileged_Witness ==
    /\ pc = "idle" /\ result = "ok" /\ ~revert /\ ~dirty /\ ~no_backup
    /\ {<<1, 1>>, <<2, 1>>} \subseteq ProcessedSet
    /\ LastTwo(<<1, 1>>, <<2, 1>>) /\ ~fixtures[1].root /\ ~fixtures[2].root
    /\ DestOf(<<1, 1>>) = D1 /\ D1 \in rewrote
    /\ fs[Slot(D1)] # start[Slot(D1)] /\ fs[Slot(D1)] # start[D1]

\* No step of a revert run changes a slot, a source or a directory of the
\* backup store, or goes through the source-reading step.
RevertFrame ==
    [][(pc # "idle" /\ revert) =>
          /\ \A d \in DestPaths : fs'[Slot(d)] = fs[Slot(d)]
          /\ \A s \in SrcPaths : fs'[s] = fs[s]
          /\ BackupTree(dirs') = BackupTree(dirs)
          /\ pc' # "source" /\ output' = output]_vars

\* The current run is a revert run started right after another revert run
\* over the same fixtures, and the user has changed nothing since.
SecondRevert == revert /\ chained /\ prev.revert /\ ~dirty

Fresh ==
    {d \in prev.wrote : ~prev.start[d].exists /\ ~start[Slot(d)].exists}

\* C20: an apply entry that writes a destination that does not exist leaves
\* the slot of that destination as it is: none is created, a stale one is
\* kept (at its backup and write steps, and so for the whole run when it is
\* the only entry that reached the destination).  A restore of a
\* destination without a slot returns NotFound and changes no file.  A
\* revert run started right after a successful apply run that created a
\* destination and left it without a slot does not succeed: it ends with
\* NotFound at that destination unless it has ended at an earlier entry;
\* the created destination keeps the applied content and still has no
\* slot.  No step of a revert run deletes a destination.
C20_FreshDestinationNoSlot ==
    /\ [][(pc \in {"backup", "write"} /\ ~fs[CurDest].exists) =>
            fs'[Slot(CurDest)] = fs[Slot(CurDest)]]_vars
    /\ [](~revert =>
            \A d \in wrote :
                (/\ ~start[d].exists
                 /\ Cardinality({p \in touched : DestOf(p) = d}) = 1)
                    => fs[Slot(d)] = start[Slot(d)])
    /\ []((revert /\ chained /\ ~dirty /\ ~prev.revert /\ prev.result = "ok") =>
            /\ \A d \in Fresh :
                  fs[d].exists /\ fs[d] = start[d] /\ ~fs[Slot(d)].exists
            /\ (pc = "idle" /\ Fresh # {}) =>
                  result # "ok" /\ (CurDest \in Fresh => result = "notfound"))
    /\ [][(pc = "restore" /\ ~fs[Slot(CurDest)].exists) =>
            result' = "notfound" /\ fs' = fs]_vars
    /\ [][(pc # "idle" /\ revert) =>
            \A d \in DestPaths : fs[d].exists => fs'[d].exists]_vars
C20_Witness ==
    /\ pc = "idle" /\ revert /\ chained /\ ~prev.revert /\ prev.result = "ok"
    /\ D2 \in Fresh /\ CurDest = D2 /\ result = "notfound"
    /\ D1 \in wrote /\ fs[D2] = start[D2] /\ fs[D2].exists
C20_Stale_Witness ==
    /\ pc = "idle" /\ ~revert /\ result = "ok" /\ ~no_backup
    /\ D2 \in wrote \ rewrote /\ ~start[D2].exists
    /\ fs[Slot(D2)] = File(TextS)
====
